---- MODULE Spec2Model ----
(***************************************************************************)
(* bare-git-cli: recursive tree upsert / removal / three-way merge over a  *)
(* content-addressed object store, and the publish protocol of the         *)
(* putFile (add-file-deep.js), removeFile (remove-file-deep.js) and        *)
(* mergeBranches (merge-branch.js) command line programs.                  *)
(*                                                                         *)
(* An object id ("sha") is modelled by the content it addresses: equal     *)
(* content, equal id, and no collisions.  Every id has the same record     *)
(* shape [k, c, e] so that any two ids can be compared, as the code does    *)
(* with === on sha strings.                                                *)
(***************************************************************************)
EXTENDS Integers, Sequences, FiniteSets, TLC

\* ------------------------------------------------------------------ bounds
\* Largest number of files of a tree the tree machine starts from.
MaxFiles == 2
\* Largest number of operations applied in sequence by the tree machine.
MaxSteps == 2
\* Largest number of command runs started in the repository machine.
MaxOps == 3

\* ------------------------------------------------------------ object model
\* Entry names, in the order git sorts them in a tree object.
Names == <<"README.md", "src">>
NameSet == {Names[i] : i \in 1..Len(Names)}
Contents == {1, 2}

NullSha == [k |-> "null", c |-> 0, e |-> {}]
Blob(content) == [k |-> "blob", c |-> content, e |-> {}]
Tree(entries) == [k |-> "tree", c |-> 0, e |-> entries]
EmptyTree == Tree({})

BlobEntry(name, oid, mode) ==
  [mode |-> mode, path |-> name, oid |-> oid, type |-> "blob"]
TreeEntry(name, oid) ==
  [mode |-> "040000", path |-> name, oid |-> oid, type |-> "tree"]

\* Outcome of a tree operation: the id returned (NullSha for JavaScript
\* null), the error thrown ("" when none), the path the error message names
\* (<<>> when it names none) and the objects written to the store before
\* returning or throwing.
Ok(oid, written) == [oid |-> oid, err |-> "", at |-> <<>>, written |-> written]
ThrowAt(err, at, written) == [oid |-> NullSha, err |-> err, at |-> at, written |-> written]
Throw(err, written) == ThrowAt(err, <<>>, written)

\* git.readTree succeeds on a tree id only; on a blob id it throws
\* ObjectTypeError.
IsTree(oid) == oid.k = "tree"

\* The entry of a tree with a given name (Array.find / findIndex / Map.get).
HasEntry(entries, name) == \E x \in entries : x.path = name
EntryOf(entries, name) == CHOOSE x \in entries : x.path = name

\* git.writeTree: the tree object is canonical (entries sorted by name), so
\* the id is a function of the entry set.
writeTree(entries, written) == Ok(Tree(entries), written \cup {Tree(entries)})

\* ---------------------------------------------------------------- upsert
\* Faulty variant of upsertTree: every level starts from an empty entry
\* list, so the siblings of the path are lost.
RECURSIVE upsertTreeDroppingSiblings(_, _, _)
upsertTreeDroppingSiblings(parentTreeSha, pathParts, fileBlobSha) ==
  LET currentPart == Head(pathParts)
      remainingParts == Tail(pathParts)
  IN  IF remainingParts = <<>>
      THEN writeTree({BlobEntry(currentPart, fileBlobSha, "100644")}, {})
      ELSE LET sub == upsertTreeDroppingSiblings(NullSha, remainingParts, fileBlobSha)
           IN  writeTree({TreeEntry(currentPart, sub.oid)}, sub.written)

\* Faulty variant of upsertTree: the siblings are kept but an existing
\* subtree is never reused; below each level the directories are built
\* afresh.
RECURSIVE upsertTreeFreshSubtree(_, _, _)
upsertTreeFreshSubtree(parentTreeSha, pathParts, fileBlobSha) ==
  LET currentPart == Head(pathParts)
      remainingParts == Tail(pathParts)
  IN  IF parentTreeSha # NullSha /\ ~IsTree(parentTreeSha)
      THEN Throw("ObjectTypeError", {})
      ELSE
        LET read == IF parentTreeSha # NullSha THEN parentTreeSha.e ELSE {}
            entries == {x \in read : x.path # currentPart}
        IN  IF remainingParts = <<>>
            THEN writeTree(entries \cup {BlobEntry(currentPart, fileBlobSha, "100644")}, {})
            ELSE
              LET sub == upsertTreeFreshSubtree(NullSha, remainingParts, fileBlobSha)
              IN  writeTree(entries \cup {TreeEntry(currentPart, sub.oid)}, sub.written)

\* Faulty variant of upsertTree: the new entry is always pushed, also when
\* the tree holds an entry of that name already.
RECURSIVE upsertTreeAlwaysPush(_, _, _)
upsertTreeAlwaysPush(parentTreeSha, pathParts, fileBlobSha) ==
  LET currentPart == Head(pathParts)
      remainingParts == Tail(pathParts)
  IN  IF parentTreeSha # NullSha /\ ~IsTree(parentTreeSha)
      THEN Throw("ObjectTypeError", {})
      ELSE
        LET entries == IF parentTreeSha # NullSha THEN parentTreeSha.e ELSE {}
        IN  IF remainingParts = <<>>
            THEN writeTree(entries \cup {BlobEntry(currentPart, fileBlobSha, "100644")}, {})
            ELSE
              LET existingSubTreeSha ==
                    IF HasEntry(entries, currentPart)
                    THEN EntryOf(entries, currentPart).oid
                    ELSE NullSha
                  sub == upsertTreeAlwaysPush(existingSubTreeSha, remainingParts,
                                              fileBlobSha)
              IN  IF sub.err # ""
                  THEN sub
                  ELSE writeTree(entries \cup {TreeEntry(currentPart, sub.oid)}, sub.written)

RECURSIVE upsertTree(_, _, _)
upsertTree(parentTreeSha, pathParts, fileBlobSha) ==
  LET currentPart == Head(pathParts)
      remainingParts == Tail(pathParts)
  IN  IF parentTreeSha # NullSha /\ ~IsTree(parentTreeSha)
      THEN Throw("ObjectTypeError", {})
      ELSE
        LET read == IF parentTreeSha # NullSha THEN parentTreeSha.e ELSE {}
            entries == {x \in read : x.path # currentPart}
        IN  IF remainingParts = <<>>
            THEN writeTree(entries \cup {BlobEntry(currentPart, fileBlobSha, "100644")}, {})
            ELSE
              LET existingSubTreeSha ==
                    IF HasEntry(read, currentPart)
                    THEN EntryOf(read, currentPart).oid
                    ELSE NullSha
                  sub == upsertTree(existingSubTreeSha, remainingParts, fileBlobSha)
              IN  IF sub.err # ""
                  THEN sub
                  ELSE writeTree(entries \cup {TreeEntry(currentPart, sub.oid)}, sub.written)

\* ---------------------------------------------------------------- remove
\* Faulty variant of step 4 of removeTreeEntry: the tree is written even when
\* it has no entry left.
RemoveFinishKeepEmpty(entries, written) == writeTree(entries, written)

\* Step 4 ("final check for this folder") and step 5 of removeTreeEntry.
RemoveFinish(entries, written) ==
  IF entries = {} THEN Ok(NullSha, written) ELSE writeTree(entries, written)

\* Faulty variant of removeTreeEntry: the entry the first segment names is
\* dropped whole, whatever the path names below it.
removeTreeEntryShallow(treeSha, pathParts) ==
  IF ~IsTree(treeSha) THEN Throw("ObjectTypeError", {})
  ELSE IF ~HasEntry(treeSha.e, Head(pathParts)) THEN Throw("NotFound", {})
  ELSE RemoveFinish(treeSha.e \ {EntryOf(treeSha.e, Head(pathParts))}, {})

\* Faulty variant of removeTreeEntry: an absent segment is no error, the
\* tree is written back as it is.
RECURSIVE removeTreeEntryLenient(_, _)
removeTreeEntryLenient(treeSha, pathParts) ==
  LET currentPart == Head(pathParts)
      remainingParts == Tail(pathParts)
  IN  IF ~IsTree(treeSha) THEN Throw("ObjectTypeError", {})
      ELSE IF ~HasEntry(treeSha.e, currentPart) THEN RemoveFinish(treeSha.e, {})
      ELSE
        LET entry == EntryOf(treeSha.e, currentPart)
            others == treeSha.e \ {entry}
        IN  IF remainingParts = <<>>
            THEN RemoveFinish(others, {})
            ELSE IF entry.type # "tree"
            THEN Throw("NotADirectory", {})
            ELSE
              LET sub == removeTreeEntryLenient(entry.oid, remainingParts)
              IN  IF sub.err # "" THEN sub
                  ELSE IF sub.oid = NullSha
                  THEN RemoveFinish(others, sub.written)
                  ELSE RemoveFinish(others \cup {[entry EXCEPT !.oid = sub.oid]},
                                    sub.written)

RECURSIVE removeTreeEntry(_, _)
removeTreeEntry(treeSha, pathParts) ==
  LET currentPart == Head(pathParts)
      remainingParts == Tail(pathParts)
  IN  IF ~IsTree(treeSha) THEN Throw("ObjectTypeError", {})
      ELSE IF ~HasEntry(treeSha.e, currentPart) THEN Throw("NotFound", {})
      ELSE
        LET entry == EntryOf(treeSha.e, currentPart)
            others == treeSha.e \ {entry}
        IN  IF remainingParts = <<>>
            THEN RemoveFinish(others, {})
            ELSE IF entry.type # "tree"
            THEN Throw("NotADirectory", {})
            ELSE
              LET sub == removeTreeEntry(entry.oid, remainingParts)
              IN  IF sub.err # "" THEN sub
                  ELSE IF sub.oid = NullSha
                  THEN RemoveFinish(others, sub.written)
                  ELSE RemoveFinish(others \cup {[entry EXCEPT !.oid = sub.oid]},
                                    sub.written)

\* Faulty variant of the empty-root handling: the null result is passed on.
MaterializeRootAbsent(R) == R

\* removeFile's main: a null result of removeTreeEntry is replaced by the
\* stored empty tree.
MaterializeRoot(R) ==
  IF R.err = "" /\ R.oid = NullSha THEN writeTree({}, R.written) ELSE R

\* The tree a commit written with the given tree id is read back with:
\* writeCommit renders a missing tree as the id of the empty tree.
CommitTree(oid) == IF oid = NullSha THEN EmptyTree ELSE oid

\* ------------------------------------------------------------------ read
\* resolveBlobEntry of read-file.js: walk the segments from the root.
RECURSIVE resolveBlobEntry(_, _)
resolveBlobEntry(rootTreeSha, parts) ==
  IF ~IsTree(rootTreeSha) THEN [sha |-> NullSha, mode |-> "", type |-> "error"]
  ELSE IF ~HasEntry(rootTreeSha.e, Head(parts))
  THEN [sha |-> NullSha, mode |-> "", type |-> "missing"]
  ELSE
    LET entry == EntryOf(rootTreeSha.e, Head(parts))
    IN  IF Tail(parts) = <<>>
        THEN [sha |-> entry.oid, mode |-> entry.mode, type |-> entry.type]
        ELSE IF entry.type # "tree"
        THEN [sha |-> NullSha, mode |-> "", type |-> "error"]
        ELSE resolveBlobEntry(entry.oid, Tail(parts))

\* ----------------------------------------------------------------- merge
\* readEntries of mergeTrees: no entries for a falsy sha, git.readTree
\* otherwise.
ReadEntriesFails(sha) == sha # NullSha /\ ~IsTree(sha)
readEntries(sha) == IF sha = NullSha THEN {} ELSE sha.e

\* The names of a tree in the order readTree returns them.
RECURSIVE SortedFrom(_, _)
SortedFrom(i, names) ==
  IF i > Len(Names) THEN <<>>
  ELSE IF Names[i] \in names THEN <<Names[i]>> \o SortedFrom(i + 1, names)
  ELSE SortedFrom(i + 1, names)
KeysOf(entries) == {x.path : x \in entries}

\* allPaths: a Set filled from base, then ours, then theirs keeps the
\* insertion order.
allPaths(baseEntries, ourEntries, theirEntries) ==
  SortedFrom(1, KeysOf(baseEntries))
    \o SortedFrom(1, KeysOf(ourEntries) \ KeysOf(baseEntries))
    \o SortedFrom(1, KeysOf(theirEntries) \ (KeysOf(baseEntries) \cup KeysOf(ourEntries)))

ShaOf(entries, p) == IF HasEntry(entries, p) THEN EntryOf(entries, p).oid ELSE NullSha
TypeOf(entries, p) == IF HasEntry(entries, p) THEN EntryOf(entries, p).type ELSE "absent"

\* The content of the empty string.
EmptyContent == 0

\* resolutions[p] is looked up by the entry name p of the current level.
\* resolutions is the parsed JSON object, here a set of <<key, content>>;
\* "if (resolutions[p])" takes a missing key and an empty content alike for
\* no resolution.
HasResolution(resolutions, p) ==
  \E r \in resolutions : r[1] = p /\ r[2] # EmptyContent
ResolutionOf(resolutions, p) == (CHOOSE r \in resolutions : r[1] = p)[2]

RECURSIVE mergeTrees(_, _, _, _)
RECURSIVE mergeLoop(_, _, _, _, _, _, _)

\* The body of "for (const p of allPaths)": todo is what is left to visit,
\* newEntries and written what the loop has pushed and stored so far.
mergeLoop(todo, baseEntries, ourEntries, theirEntries, resolutions, newEntries, written) ==
  IF todo = <<>>
  THEN IF newEntries = {} THEN Ok(NullSha, written) ELSE writeTree(newEntries, written)
  ELSE
    LET p == Head(todo)
        baseSha == ShaOf(baseEntries, p)
        ourSha == ShaOf(ourEntries, p)
        theirSha == ShaOf(theirEntries, p)
        isDir == TypeOf(ourEntries, p) = "tree" \/ TypeOf(theirEntries, p) = "tree"
        next(pushed, stored) ==
          mergeLoop(Tail(todo), baseEntries, ourEntries, theirEntries, resolutions,
                    newEntries \cup pushed, written \cup stored)
        oursIfAny == IF HasEntry(ourEntries, p) THEN {EntryOf(ourEntries, p)} ELSE {}
        theirsIfAny == IF HasEntry(theirEntries, p) THEN {EntryOf(theirEntries, p)} ELSE {}
    IN  IF isDir
        THEN LET sub == mergeTrees(baseSha, ourSha, theirSha, resolutions)
             IN  IF sub.err # "" THEN ThrowAt(sub.err, sub.at, written \cup sub.written)
                 ELSE IF sub.oid # NullSha
                 THEN next({TreeEntry(p, sub.oid)}, sub.written)
                 ELSE next({}, sub.written)
        ELSE IF ourSha = theirSha THEN next(oursIfAny, {})
        ELSE IF ourSha = baseSha /\ theirSha # baseSha THEN next(theirsIfAny, {})
        ELSE IF ourSha # baseSha /\ theirSha = baseSha THEN next(oursIfAny, {})
        ELSE IF HasResolution(resolutions, p)
        THEN next({BlobEntry(p, Blob(ResolutionOf(resolutions, p)), "100644")},
                  {Blob(ResolutionOf(resolutions, p))})
        ELSE ThrowAt("MergeConflict", <<p>>, written)

mergeTrees(baseTreeSha, ourTreeSha, theirTreeSha, resolutions) ==
  IF ReadEntriesFails(baseTreeSha) \/ ReadEntriesFails(ourTreeSha)
       \/ ReadEntriesFails(theirTreeSha)
  THEN Throw("ObjectTypeError", {})
  ELSE mergeLoop(allPaths(readEntries(baseTreeSha), readEntries(ourTreeSha),
                          readEntries(theirTreeSha)),
                 readEntries(baseTreeSha), readEntries(ourTreeSha),
                 readEntries(theirTreeSha), resolutions, {}, {})

\* ------------------------------------------------- trees the machines use
\* The files of a tree as (path, entry) pairs, and the directories as paths.
RECURSIVE FilesOf(_, _)
FilesOf(tree, prefix) ==
  UNION {IF x.type = "tree"
         THEN FilesOf(x.oid, Append(prefix, x.path))
         ELSE {<<Append(prefix, x.path), x.oid, x.mode>>} : x \in tree.e}

\* The blobs and trees a tree refers to, itself included.
RECURSIVE ObjectsIn(_)
ObjectsIn(oid) ==
  IF oid = NullSha THEN {} ELSE {oid} \cup UNION {ObjectsIn(x.oid) : x \in oid.e}

\* A tree holds an empty directory when one of its entries, at any depth,
\* is a tree with zero entries.
RECURSIVE RefersToEmptyDir(_)
RefersToEmptyDir(oid) ==
  IsTree(oid) /\ \E x \in oid.e :
     x.type = "tree" /\ (x.oid = EmptyTree \/ RefersToEmptyDir(x.oid))

\* Paths of one or two segments: the paths the machines put, remove and read.
Paths == {<<a>> : a \in NameSet} \cup {<<a, b>> : a \in NameSet, b \in NameSet}

IsPrefix(p, q) == Len(p) <= Len(q) /\ SubSeq(q, 1, Len(p)) = p
IsProperPrefix(p, q) == Len(p) < Len(q) /\ IsPrefix(p, q)

\* A file of a starting tree: a regular file holding 1 or an executable
\* holding 2.
InputFiles ==
  {<<p, v[1], v[2]>> : p \in Paths, v \in {<<1, "100644">>, <<2, "100755">>}}

\* File sets that are the content of a tree: at most MaxFiles files, one
\* file per path, no file below another file.
FileSets ==
  {fs \in SUBSET InputFiles :
     /\ Cardinality(fs) <= MaxFiles
     /\ \A f, g \in fs : f # g => f[1] # g[1] /\ ~IsProperPrefix(f[1], g[1])}

\* The tree holding exactly the given files; a directory exists only to hold
\* a file.
RECURSIVE TreeOfFiles(_)
TreeOfFiles(fs) ==
  Tree({IF \E f \in fs : f[1] = <<n>>
        THEN LET f == CHOOSE g \in fs : g[1] = <<n>>
             IN  BlobEntry(n, Blob(f[2]), f[3])
        ELSE TreeEntry(n, TreeOfFiles({<<Tail(f[1]), f[2], f[3]>> :
                                          f \in {g \in fs : Head(g[1]) = n}}))
        : n \in {Head(f[1]) : f \in fs}})

InputTrees == {TreeOfFiles(fs) : fs \in FileSets}

\* Resolutions a merge run may be given.
ResolutionChoices == {{}, {<<"README.md", 1>>}}

VARIABLES
  \* repository machine
  refs,      \* full ref name -> commit id (NullCommit: no such ref)
  objects,   \* blob and tree objects in the object store
  commits,   \* commit objects in the object store
  proc,      \* per process: the command it runs and that run's locals
  ops,       \* number of command runs started
  \* tree machine
  base,      \* root tree of the merge base
  ours,      \* root tree of the receiving branch
  theirs,    \* root tree of the other branch
  steps,     \* number of operations applied
  last,      \* the operation applied last, with its inputs and outcome
  prev       \* the operation applied before it

repoVars == <<refs, objects, commits, proc, ops>>
treeVars == <<base, ours, theirs, steps, last, prev>>
vars == <<refs, objects, commits, proc, ops, base, ours, theirs, steps, last, prev>>

\* The tree machine's record of an operation: none yet.
NoOp ==
  [op |-> "none", side |-> "ours", T |-> NullSha, B |-> NullSha, S |-> NullSha,
   p |-> <<>>, X |-> NullSha, res |-> {}, R |-> Ok(NullSha, {})]

\* ------------------------------------------------------ repository machine
\* Commit ids: the commit's content.  The author timestamp
\* (Math.floor(Date.now() / 1000)) is taken to be the same in every run, the
\* case of runs within one second, so that two runs writing the same tree,
\* parents and message get the same commit id.
NoMessage == [verb |-> "", path |-> <<>>, source |-> "", dest |-> ""]
NullCommit == [tree |-> NullSha, parent |-> <<>>, message |-> NoMessage]
Commit(tree, parent, message) == [tree |-> tree, parent |-> parent, message |-> message]

Procs == {1, 2}
BranchArgs == {"main", "dev"}
OpPaths == {<<"README.md">>, <<"src", "README.md">>}
\* The command lines the runs are launched with: <<filePath, fileContent>> of
\* putFile, <<sourceBranch, destBranch>> of mergeBranches and
\* <<newBranchName, sourceBranchName>> of createBranch.
PutArgs == {<<<<"README.md">>, 2>>, <<<<"src", "README.md">>, 1>>}
\* filePath of removeFile: a file, a file in a directory, and a path through
\* a name that is a file.
RemoveArgs == OpPaths \cup {<<"README.md", "src">>}
MergeArgs == {<<"dev", "main">>, <<"main", "dev">>, <<"main", "main">>}
CreateArgs == {<<"dev", "main">>, <<"main", "main">>, <<"dev", "dev">>}

\* The ref file a ref argument resolves to (GitRefManager.resolve tries
\* refs/heads/<name> for a short name; HEAD is the symbolic ref create-bare
\* leaves pointing to refs/heads/main).
FullRef(refName) ==
  CASE refName = "main" -> "refs/heads/main"
    [] refName = "dev" -> "refs/heads/dev"
    [] refName = "HEAD" -> "refs/heads/main"
    [] OTHER -> refName
RefNames == {FullRef(b) : b \in BranchArgs}

\* git.resolveRef: the commit the ref holds, NullCommit standing for the
\* NotFoundError the callers catch.
resolveRef(refName) == refs[FullRef(refName)]

\* The ref putFile and removeFile write:
\* `refs/heads/${refName.replace('refs/heads/', '')}`.
WrittenRef(refName) ==
  CASE refName = "main" -> "refs/heads/main"
    [] refName = "dev" -> "refs/heads/dev"
    [] refName = "HEAD" -> "refs/heads/HEAD"
    [] refName = "refs/tags/v1" -> "refs/heads/refs/tags/v1"
    [] OTHER -> refName

\* git.findMergeBase: walk the parents of both heads generation by
\* generation and return the commits first visited from both.
RECURSIVE findMergeBaseFrom(_, _)
findMergeBaseFrom(heads, visits) ==
  IF heads = {} THEN {}
  ELSE
    LET seen == visits \cup heads
        result == {h[1] : h \in {g \in heads : <<g[1], 0>> \in seen /\ <<g[1], 1>> \in seen}}
    IN  IF result # {} THEN result
        ELSE findMergeBaseFrom(
               UNION {{<<h[1].parent[i], h[2]>> : i \in 1..Len(h[1].parent)} : h \in heads}
                 \ seen, seen)
findMergeBase(destSha, sourceSha) ==
  findMergeBaseFrom({<<destSha, 0>>, <<sourceSha, 1>>}, {})

IdleProc ==
  [pc |-> "idle", op |-> "none", refName |-> "", filePath |-> <<>>, fileContent |-> 0,
   sourceBranch |-> "", destBranch |-> "", resolutions |-> {},
   parentSha |-> NullCommit, sourceSha |-> NullCommit, destSha |-> NullCommit,
   newRootTreeSha |-> NullSha, commitSha |-> NullCommit, currentSha |-> NullCommit,
   baseSha |-> NullCommit, result |-> "", err |-> "", at |-> <<>>, written |-> {},
   refWrites |-> 0, overtaken |-> FALSE]

\* A process may launch a command when it runs none.  Processes are
\* interchangeable, so the second one is used only while the first is busy.
Resting(p) == proc[p].pc \in {"idle", "done"}
CanStart(p) ==
  /\ ops < MaxOps
  /\ Resting(p)
  /\ p = 2 => ~Resting(1)

Finish(p, result) == [proc[p] EXCEPT !.pc = "done", !.result = result]

\* A ref write by process p: the ref moves and the run counts it; when p runs
\* putFile or removeFile, every other putFile/removeFile run on that ref that
\* has read its parent and not yet re-checked the ref has been overtaken by a
\* writer.
InWindow(q, ref) ==
  /\ proc[q].op \in {"put", "remove"}
  /\ proc[q].pc \in {"tree", "commit", "check"}
  /\ FullRef(proc[q].refName) = ref
writeRef(p, ref, value, result) ==
  /\ refs' = [refs EXCEPT ![ref] = value]
  /\ proc' = [q \in Procs |->
                IF q = p
                THEN [Finish(p, result) EXCEPT !.refWrites = proc[p].refWrites + 1]
                ELSE IF InWindow(q, ref) /\ proc[p].op \in {"put", "remove"}
                THEN [proc[q] EXCEPT !.overtaken = TRUE]
                ELSE proc[q]]

Launch(p, run) ==
  /\ CanStart(p)
  /\ ops' = ops + 1
  /\ proc' = [proc EXCEPT ![p] = run]

Step(p, run) == proc' = [proc EXCEPT ![p] = run]

\* ------------------------------------------------- putFile (add-file-deep)
\* STEP 1: resolve the parent commit; a missing ref gives a root commit.
PutResolveParent(p, refName, filePath, fileContent) ==
  /\ Launch(p, [IdleProc EXCEPT !.pc = "tree", !.op = "put", !.refName = refName,
                                !.filePath = filePath, !.fileContent = fileContent,
                                !.parentSha = resolveRef(refName)])
  /\ UNCHANGED <<refs, objects, commits, treeVars>>

\* STEPS 2-4: read the root tree, write the blob, upsert the path.
PutBuildTree(p) ==
  /\ proc[p].op = "put" /\ proc[p].pc = "tree"
  /\ LET rootTreeSha == IF proc[p].parentSha # NullCommit
                        THEN proc[p].parentSha.tree ELSE NullSha
         blobSha == Blob(proc[p].fileContent)
         R == upsertTree(rootTreeSha, proc[p].filePath, blobSha)
     IN  /\ objects' = objects \cup {blobSha} \cup R.written
         /\ IF R.err # ""
            THEN Step(p, [Finish(p, "Error") EXCEPT !.err = R.err,
                                                    !.written = {blobSha} \cup R.written])
            ELSE Step(p, [proc[p] EXCEPT !.pc = "commit", !.newRootTreeSha = R.oid,
                                         !.written = {blobSha} \cup R.written])
  /\ UNCHANGED <<refs, commits, ops, treeVars>>

\* Faulty variant of STEP 5: the run goes on with a commit id whose object
\* never reached the store.
PutWriteCommitUnstored(p) ==
  /\ proc[p].op = "put" /\ proc[p].pc = "commit"
  /\ LET commitSha ==
           Commit(CommitTree(proc[p].newRootTreeSha),
                  IF proc[p].parentSha # NullCommit THEN <<proc[p].parentSha>> ELSE <<>>,
                  [NoMessage EXCEPT !.verb = "Add", !.path = proc[p].filePath])
     IN  Step(p, [proc[p] EXCEPT !.pc = "check", !.commitSha = commitSha])
  /\ UNCHANGED <<refs, objects, commits, ops, treeVars>>

\* STEP 5: write the commit.
PutWriteCommit(p) ==
  /\ proc[p].op = "put" /\ proc[p].pc = "commit"
  /\ LET commitSha ==
           Commit(CommitTree(proc[p].newRootTreeSha),
                  IF proc[p].parentSha # NullCommit THEN <<proc[p].parentSha>> ELSE <<>>,
                  [NoMessage EXCEPT !.verb = "Add", !.path = proc[p].filePath])
     IN  /\ commits' = commits \cup {commitSha}
         /\ Step(p, [proc[p] EXCEPT !.pc = "check", !.commitSha = commitSha])
  /\ UNCHANGED <<refs, objects, ops, treeVars>>

\* Faulty variant of STEP 6.1-6.2: the ref is read again but the comparison
\* is skipped.
PutRecheckNoCompare(p) ==
  /\ proc[p].op = "put" /\ proc[p].pc = "check"
  /\ Step(p, [proc[p] EXCEPT !.pc = "swap", !.currentSha = resolveRef(proc[p].refName)])
  /\ UNCHANGED <<refs, objects, commits, ops, treeVars>>

\* STEP 6.1-6.2: read the ref again and compare it with the parent.
PutRecheck(p) ==
  /\ proc[p].op = "put" /\ proc[p].pc = "check"
  /\ LET currentSha == resolveRef(proc[p].refName)
     IN  IF currentSha # proc[p].parentSha
         THEN Step(p, [Finish(p, "Stale") EXCEPT !.currentSha = currentSha])
         ELSE Step(p, [proc[p] EXCEPT !.pc = "swap", !.currentSha = currentSha])
  /\ UNCHANGED <<refs, objects, commits, ops, treeVars>>

\* STEP 6.3: force-write the ref.
PutWriteRef(p) ==
  /\ proc[p].op = "put" /\ proc[p].pc = "swap"
  /\ writeRef(p, WrittenRef(proc[p].refName), proc[p].commitSha, "Ok")
  /\ UNCHANGED <<objects, commits, ops, treeVars>>

\* ------------------------------------------- removeFile (remove-file-deep)
\* STEP 1: resolve the parent commit; a missing ref ends the run.
RemoveResolveParent(p, refName, filePath) ==
  /\ Launch(p, IF resolveRef(refName) = NullCommit
               THEN [IdleProc EXCEPT !.pc = "done", !.op = "remove", !.refName = refName,
                                     !.filePath = filePath, !.result = "Error"]
               ELSE [IdleProc EXCEPT !.pc = "tree", !.op = "remove", !.refName = refName,
                                     !.filePath = filePath,
                                     !.parentSha = resolveRef(refName)])
  /\ UNCHANGED <<refs, objects, commits, treeVars>>

\* STEPS 2-3: read the root tree, remove the path, store the empty tree when
\* nothing is left.
RemoveBuildTree(p) ==
  /\ proc[p].op = "remove" /\ proc[p].pc = "tree"
  /\ LET rootTreeSha == proc[p].parentSha.tree
         R == MaterializeRoot(removeTreeEntry(rootTreeSha, proc[p].filePath))
     IN  /\ objects' = objects \cup R.written
         /\ IF R.err # ""
            THEN Step(p, [Finish(p, "Error") EXCEPT !.err = R.err, !.written = R.written])
            ELSE Step(p, [proc[p] EXCEPT !.pc = "commit", !.newRootTreeSha = R.oid,
                                         !.written = R.written])
  /\ UNCHANGED <<refs, commits, ops, treeVars>>

\* STEP 4: write the commit.
RemoveWriteCommit(p) ==
  /\ proc[p].op = "remove" /\ proc[p].pc = "commit"
  /\ LET commitSha ==
           Commit(CommitTree(proc[p].newRootTreeSha), <<proc[p].parentSha>>,
                  [NoMessage EXCEPT !.verb = "Remove", !.path = proc[p].filePath])
     IN  /\ commits' = commits \cup {commitSha}
         /\ Step(p, [proc[p] EXCEPT !.pc = "check", !.commitSha = commitSha])
  /\ UNCHANGED <<refs, objects, ops, treeVars>>

\* STEP 5, first half: read the ref again (a missing ref throws) and compare.
RemoveRecheck(p) ==
  /\ proc[p].op = "remove" /\ proc[p].pc = "check"
  /\ LET currentSha == resolveRef(proc[p].refName)
     IN  IF currentSha = NullCommit THEN Step(p, Finish(p, "Error"))
         ELSE IF currentSha # proc[p].parentSha
         THEN Step(p, [Finish(p, "Stale") EXCEPT !.currentSha = currentSha])
         ELSE Step(p, [proc[p] EXCEPT !.pc = "swap", !.currentSha = currentSha])
  /\ UNCHANGED <<refs, objects, commits, ops, treeVars>>

\* STEP 5, second half: force-write the ref.
RemoveWriteRef(p) ==
  /\ proc[p].op = "remove" /\ proc[p].pc = "swap"
  /\ writeRef(p, WrittenRef(proc[p].refName), proc[p].commitSha, "Ok")
  /\ UNCHANGED <<objects, commits, ops, treeVars>>

\* ------------------------------------------ mergeBranches (merge-branch)
MergeRef(branch) == FullRef(branch)

\* Resolve the source branch; a missing ref ends the run.
MergeResolveSource(p, sourceBranch, destBranch, resolutions) ==
  /\ Launch(p, IF refs[MergeRef(sourceBranch)] = NullCommit
               THEN [IdleProc EXCEPT !.pc = "done", !.op = "merge",
                                     !.sourceBranch = sourceBranch,
                                     !.destBranch = destBranch,
                                     !.resolutions = resolutions, !.result = "Error"]
               ELSE [IdleProc EXCEPT !.pc = "dest", !.op = "merge",
                                     !.sourceBranch = sourceBranch,
                                     !.destBranch = destBranch,
                                     !.resolutions = resolutions,
                                     !.sourceSha = refs[MergeRef(sourceBranch)]])
  /\ UNCHANGED <<refs, objects, commits, treeVars>>

\* Resolve the destination branch; a missing ref ends the run.
MergeResolveDest(p) ==
  /\ proc[p].op = "merge" /\ proc[p].pc = "dest"
  /\ IF refs[MergeRef(proc[p].destBranch)] = NullCommit
     THEN Step(p, Finish(p, "Error"))
     ELSE Step(p, [proc[p] EXCEPT !.pc = "tree",
                                  !.destSha = refs[MergeRef(proc[p].destBranch)]])
  /\ UNCHANGED <<refs, objects, commits, ops, treeVars>>

\* MergeBuildTree taking the merged tree for nothing new when the store holds
\* it already: the outcome of a run then depends on what other runs stored.
MergeBuildTreeStoreDependent(p) ==
  /\ proc[p].op = "merge" /\ proc[p].pc = "tree"
  /\ LET mergeBases == findMergeBase(proc[p].destSha, proc[p].sourceSha)
     IN  IF mergeBases = {}
         THEN Step(p, Finish(p, "Error")) /\ UNCHANGED objects
         ELSE \E baseSha \in mergeBases :
                LET M == mergeTrees(baseSha.tree, proc[p].destSha.tree,
                                    proc[p].sourceSha.tree, proc[p].resolutions)
                    R == IF M.err = "" /\ M.written # {} /\ M.written \subseteq objects
                         THEN Ok(proc[p].destSha.tree, {}) ELSE M
                IN  /\ objects' = objects \cup R.written
                    /\ IF R.err # ""
                       THEN Step(p, [Finish(p, "Error") EXCEPT !.baseSha = baseSha,
                                                               !.err = R.err,
                                                               !.at = R.at,
                                                               !.written = R.written])
                       ELSE Step(p, [proc[p] EXCEPT !.pc = "commit",
                                                    !.baseSha = baseSha,
                                                    !.newRootTreeSha = R.oid,
                                                    !.written = R.written])
  /\ UNCHANGED <<refs, commits, ops, treeVars>>

\* Find the merge base, read the three commits, merge the trees; without a
\* common ancestor readCommit of the missing base throws.
MergeBuildTree(p) ==
  /\ proc[p].op = "merge" /\ proc[p].pc = "tree"
  /\ LET mergeBases == findMergeBase(proc[p].destSha, proc[p].sourceSha)
     IN  IF mergeBases = {}
         THEN Step(p, Finish(p, "Error")) /\ UNCHANGED objects
         ELSE \E baseSha \in mergeBases :
                LET R == mergeTrees(baseSha.tree, proc[p].destSha.tree,
                                    proc[p].sourceSha.tree, proc[p].resolutions)
                IN  /\ objects' = objects \cup R.written
                    /\ IF R.err # ""
                       THEN Step(p, [Finish(p, "Error") EXCEPT !.baseSha = baseSha,
                                                               !.err = R.err,
                                                               !.at = R.at,
                                                               !.written = R.written])
                       ELSE Step(p, [proc[p] EXCEPT !.pc = "commit",
                                                    !.baseSha = baseSha,
                                                    !.newRootTreeSha = R.oid,
                                                    !.written = R.written])
  /\ UNCHANGED <<refs, commits, ops, treeVars>>

\* MergeWriteCommit listing the source commit before the destination commit.
MergeWriteCommitSourceFirst(p) ==
  /\ proc[p].op = "merge" /\ proc[p].pc = "commit"
  /\ LET mergeCommitSha ==
           Commit(CommitTree(proc[p].newRootTreeSha),
                  <<proc[p].sourceSha, proc[p].destSha>>,
                  [NoMessage EXCEPT !.verb = "Merge", !.source = proc[p].sourceBranch,
                                    !.dest = proc[p].destBranch])
     IN  /\ commits' = commits \cup {mergeCommitSha}
         /\ Step(p, [proc[p] EXCEPT !.pc = "swap", !.commitSha = mergeCommitSha])
  /\ UNCHANGED <<refs, objects, ops, treeVars>>

\* Write the merge commit: destination first, source second.
MergeWriteCommit(p) ==
  /\ proc[p].op = "merge" /\ proc[p].pc = "commit"
  /\ LET mergeCommitSha ==
           Commit(CommitTree(proc[p].newRootTreeSha),
                  <<proc[p].destSha, proc[p].sourceSha>>,
                  [NoMessage EXCEPT !.verb = "Merge", !.source = proc[p].sourceBranch,
                                    !.dest = proc[p].destBranch])
     IN  /\ commits' = commits \cup {mergeCommitSha}
         /\ Step(p, [proc[p] EXCEPT !.pc = "swap", !.commitSha = mergeCommitSha])
  /\ UNCHANGED <<refs, objects, ops, treeVars>>

\* Force-write the destination ref.
MergeWriteRef(p) ==
  /\ proc[p].op = "merge" /\ proc[p].pc = "swap"
  /\ writeRef(p, MergeRef(proc[p].destBranch), proc[p].commitSha, "Ok")
  /\ UNCHANGED <<objects, commits, ops, treeVars>>

\* ---------------------------------------------- createBranch, removeBranch
\* Resolve the source ref; a missing ref ends the run.
CreateResolveSource(p, newBranchName, sourceBranchName) ==
  /\ Launch(p, IF refs[FullRef(sourceBranchName)] = NullCommit
               THEN [IdleProc EXCEPT !.pc = "done", !.op = "create",
                                     !.refName = newBranchName,
                                     !.sourceBranch = sourceBranchName,
                                     !.result = "Error"]
               ELSE [IdleProc EXCEPT !.pc = "exists", !.op = "create",
                                     !.refName = newBranchName,
                                     !.sourceBranch = sourceBranchName,
                                     !.sourceSha = refs[FullRef(sourceBranchName)]])
  /\ UNCHANGED <<refs, objects, commits, treeVars>>

\* git.writeRef with force: false first looks whether the ref exists ...
CreateCheckExists(p) ==
  /\ proc[p].op = "create" /\ proc[p].pc = "exists"
  /\ IF refs[FullRef(proc[p].refName)] # NullCommit
     THEN Step(p, Finish(p, "AlreadyExists"))
     ELSE Step(p, [proc[p] EXCEPT !.pc = "swap"])
  /\ UNCHANGED <<refs, objects, commits, ops, treeVars>>

\* ... and then writes it.
CreateWriteRef(p) ==
  /\ proc[p].op = "create" /\ proc[p].pc = "swap"
  /\ writeRef(p, FullRef(proc[p].refName), proc[p].sourceSha, "Ok")
  /\ UNCHANGED <<objects, commits, ops, treeVars>>

\* Resolve the branch to delete; a missing ref ends the run.
DeleteResolve(p, branchName) ==
  /\ Launch(p, IF refs[FullRef(branchName)] = NullCommit
               THEN [IdleProc EXCEPT !.pc = "done", !.op = "delete",
                                     !.refName = branchName, !.result = "Error"]
               ELSE [IdleProc EXCEPT !.pc = "swap", !.op = "delete",
                                     !.refName = branchName])
  /\ UNCHANGED <<refs, objects, commits, treeVars>>

\* git.deleteRef.
DeleteRef(p) ==
  /\ proc[p].op = "delete" /\ proc[p].pc = "swap"
  /\ refs' = [refs EXCEPT ![FullRef(proc[p].refName)] = NullCommit]
  /\ Step(p, Finish(p, "Ok"))
  /\ UNCHANGED <<objects, commits, ops, treeVars>>

\* ------------------------------------------------------------------- Init
\* The repository create-bare.js leaves: one commit holding README.md
\* ("Hello World\n", content 1 here), and refs/heads/main pointing at it.
InitialTree == Tree({BlobEntry("README.md", Blob(1), "100644")})
InitialCommit ==
  Commit(InitialTree, <<>>, [NoMessage EXCEPT !.verb = "Initial"])

Init ==
  /\ refs = [r \in RefNames |-> IF r = "refs/heads/main" THEN InitialCommit ELSE NullCommit]
  /\ objects = {Blob(1), InitialTree}
  /\ commits = {InitialCommit}
  /\ proc = [p \in Procs |-> IdleProc]
  /\ ops = 0
  /\ base = NullSha /\ ours = NullSha /\ theirs = NullSha
  /\ steps = 0 /\ last = NoOp /\ prev = NoOp

Next ==
  \/ \E p \in Procs, refName \in BranchArgs, a \in PutArgs :
        PutResolveParent(p, refName, a[1], a[2])
  \/ \E p \in Procs : PutBuildTree(p)
  \/ \E p \in Procs : PutWriteCommit(p)
  \/ \E p \in Procs : PutRecheck(p)
  \/ \E p \in Procs : PutWriteRef(p)
  \/ \E p \in Procs, refName \in BranchArgs, filePath \in RemoveArgs :
        RemoveResolveParent(p, refName, filePath)
  \/ \E p \in Procs : RemoveBuildTree(p)
  \/ \E p \in Procs : RemoveWriteCommit(p)
  \/ \E p \in Procs : RemoveRecheck(p)
  \/ \E p \in Procs : RemoveWriteRef(p)
  \/ \E p \in Procs, a \in MergeArgs : MergeResolveSource(p, a[1], a[2], {})
  \/ \E p \in Procs : MergeResolveDest(p)
  \/ \E p \in Procs : MergeBuildTree(p)
  \/ \E p \in Procs : MergeWriteCommit(p)
  \/ \E p \in Procs : MergeWriteRef(p)
  \/ \E p \in Procs, a \in CreateArgs : CreateResolveSource(p, a[1], a[2])
  \/ \E p \in Procs : CreateCheckExists(p)
  \/ \E p \in Procs : CreateWriteRef(p)
  \/ \E p \in Procs, branchName \in BranchArgs : DeleteResolve(p, branchName)
  \/ \E p \in Procs : DeleteRef(p)

Spec == Init /\ [][Next]_vars

\* ------------------------------------------- repository machine: claims
Writer(p) == proc[p].op \in {"put", "remove"}
Publisher(p) == proc[p].op \in {"put", "remove", "merge"}
\* The run of p has written its commit, so it has reached the ref update.
ReachedUpdate(p) == proc[p].commitSha # NullCommit
Rechecked(p) == Writer(p) /\ ReachedUpdate(p) /\ proc[p].pc \in {"swap", "done"}

\* C1 (CAS race): two writers on one ref that both read commit H1 as parent
\* and both reached the ref update: exactly one succeeded, the other reported
\* Stale, and the ref holds one of the two proposed commits.
C1_CasRace ==
  \A p, q \in Procs :
    /\ p # q /\ Writer(p) /\ Writer(q)
    /\ FullRef(proc[p].refName) = FullRef(proc[q].refName)
    /\ proc[p].parentSha = proc[q].parentSha /\ proc[p].parentSha # NullCommit
    /\ ReachedUpdate(p) /\ ReachedUpdate(q)
    /\ proc[p].pc = "done" /\ proc[q].pc = "done"
    => /\ \/ proc[p].result = "Ok" /\ proc[q].result = "Stale"
          \/ proc[p].result = "Stale" /\ proc[q].result = "Ok"
       /\ refs[FullRef(proc[p].refName)] \in {proc[p].commitSha, proc[q].commitSha}

\* C2 (merge publishes by compare-and-swap): mergeBranches moves the
\* destination ref only while it still holds the destination commit the run
\* read at its start.
C2_MergeCas ==
  [][\A p \in Procs :
       proc[p].op = "merge" /\ proc[p].pc = "swap" /\ proc'[p].pc = "done"
       => refs[MergeRef(proc[p].destBranch)] = proc[p].destSha]_vars

\* C3 as stated (stale detection): a putFile/removeFile run overtaken by
\* another writer's completed update between reading its parent and
\* re-checking the ref reports Stale and writes no ref.
C3_StaleDetection_Original ==
  \A p \in Procs :
    Rechecked(p) /\ proc[p].overtaken
    => proc[p].pc = "done" /\ proc[p].result = "Stale" /\ proc[p].refWrites = 0

\* C3 as amended: a putFile/removeFile run that finds, when it re-checks the
\* ref, a commit other than the parent it read reports Stale, has written no
\* ref, and is over (it takes no further step, so it does not retry); and a
\* run reports Stale only so.
C3_StaleDetection ==
  \A p \in Procs :
    /\ Rechecked(p) /\ proc[p].currentSha \notin {proc[p].parentSha, NullCommit}
       => proc[p].pc = "done" /\ proc[p].result = "Stale" /\ proc[p].refWrites = 0
    /\ proc[p].result = "Stale"
       => proc[p].pc = "done" /\ proc[p].refWrites = 0
          /\ proc[p].currentSha # proc[p].parentSha

C3_Witness ==
  \E p \in Procs :
    /\ Rechecked(p) /\ proc[p].overtaken /\ proc[p].result = "Stale"
    /\ proc[p].parentSha # NullCommit
    /\ refs[FullRef(proc[p].refName)] = proc[p].currentSha
    /\ \E q \in Procs : q # p /\ Writer(q) /\ proc[q].result = "Ok"
                        /\ proc[q].commitSha = proc[p].currentSha

\* C4 (publish ordering): a run of putFile, removeFile or mergeBranches writes
\* the ref at most once and only after its commit object is stored; a run
\* that failed before or while writing the commit has written no ref, and
\* every ref holds a stored commit.
C4_PublishOrdering ==
  /\ \A p \in Procs :
       Publisher(p) =>
         /\ proc[p].refWrites <= 1
         /\ proc[p].refWrites = 1 =>
              /\ ReachedUpdate(p) /\ proc[p].commitSha \in commits
              /\ proc[p].pc = "done" /\ proc[p].result = "Ok"
         /\ proc[p].pc = "swap" => ReachedUpdate(p) /\ proc[p].commitSha \in commits
         /\ ~ReachedUpdate(p) => proc[p].refWrites = 0
         /\ proc[p].result = "Error" => proc[p].refWrites = 0
  /\ \A r \in RefNames : refs[r] # NullCommit => refs[r] \in commits

C4_Witness ==
  /\ \E p \in Procs : Publisher(p) /\ proc[p].result = "Error"
                      /\ ~ReachedUpdate(p) /\ proc[p].parentSha # NullCommit
  /\ \E q \in Procs : proc[q].op = "merge" /\ proc[q].refWrites = 1
                      /\ refs[MergeRef(proc[q].destBranch)] = proc[q].commitSha

\* The paths of the files of a tree.
FilePaths(tree) == {f[1] : f \in FilesOf(tree, <<>>)}

\* C10 (removing the last file): the commit removeFile writes always names a
\* stored tree, and when the removed path was the only file of the parent's
\* tree that tree is the stored empty tree.
C10_LastFileRemoved ==
  \A p \in Procs :
    proc[p].op = "remove" /\ ReachedUpdate(p) =>
      /\ proc[p].commitSha.tree # NullSha
      /\ proc[p].commitSha.tree \in objects
      /\ FilePaths(proc[p].parentSha.tree) = {proc[p].filePath} =>
           /\ proc[p].commitSha.tree = EmptyTree
           /\ proc[p].newRootTreeSha = EmptyTree

C10_Witness ==
  \E p \in Procs :
    /\ proc[p].op = "remove" /\ proc[p].result = "Ok"
    /\ proc[p].filePath = <<"src", "README.md">>
    /\ FilePaths(proc[p].parentSha.tree) = {proc[p].filePath}
    /\ refs[FullRef(proc[p].refName)] = proc[p].commitSha
    /\ proc[p].commitSha.tree = EmptyTree /\ EmptyTree \in objects

\* What removeTreeEntry finds when it descends the path of run p in the tree
\* of the parent commit: "missing" when a segment is absent in the tree
\* reached so far, "error" when a non-terminal segment names a blob.
RemoveLookup(p) == resolveBlobEntry(proc[p].parentSha.tree, proc[p].filePath).type
RemoveTried(p) ==
  proc[p].op = "remove" /\ proc[p].parentSha # NullCommit /\ proc[p].pc # "tree"

\* C11 (remove failure is all-or-nothing): a removeFile run whose path has an
\* absent segment fails with NotFound, one whose path runs through a blob
\* fails with the type mismatch ("is not a directory"); a failed removal has
\* written no tree object and no commit object and has not written the ref,
\* and the removal fails in these two cases only.
C11_RemoveAllOrNothing ==
  \A p \in Procs :
    RemoveTried(p) =>
      /\ RemoveLookup(p) = "missing" => proc[p].err = "NotFound"
      /\ RemoveLookup(p) = "error" => proc[p].err = "NotADirectory"
      /\ RemoveLookup(p) \in {"blob", "tree"} => proc[p].err = ""
      /\ proc[p].err # "" =>
            /\ proc[p].pc = "done" /\ proc[p].result = "Error"
            /\ proc[p].written = {}
            /\ proc[p].commitSha = NullCommit
            /\ proc[p].refWrites = 0
            /\ \A c \in commits : c.message.verb = "Remove" =>
                  ~(c.parent = <<proc[p].parentSha>> /\ c.message.path = proc[p].filePath)

C11_Witness ==
  /\ \E p \in Procs : RemoveTried(p) /\ proc[p].err = "NotADirectory"
                      /\ refs[FullRef(proc[p].refName)] = proc[p].parentSha
  /\ \E q \in Procs : RemoveTried(q) /\ proc[q].err = "NotFound"
                      /\ Len(proc[q].filePath) = 2
                      /\ ~HasEntry(proc[q].parentSha.tree.e, "src")

\* The commit a run wrote, if it wrote one.
Committed(p) == proc[p].commitSha # NullCommit

\* C18 (commit parents): the commit written by put has one parent, the commit
\* read from the ref when the run started, or no parent when the ref did not
\* exist; the commit written by remove has that one parent; the commit
\* written by merge has exactly two parents, the destination branch's commit
\* first and the source branch's commit second.
C18_CommitParents ==
  \A p \in Procs :
    Committed(p) =>
      /\ proc[p].op = "put" =>
            proc[p].commitSha.parent =
              IF proc[p].parentSha = NullCommit THEN <<>> ELSE <<proc[p].parentSha>>
      /\ proc[p].op = "remove" =>
            /\ proc[p].parentSha # NullCommit
            /\ proc[p].commitSha.parent = <<proc[p].parentSha>>
      /\ proc[p].op = "merge" =>
            /\ Len(proc[p].commitSha.parent) = 2
            /\ proc[p].commitSha.parent[1] = proc[p].destSha
            /\ proc[p].commitSha.parent[2] = proc[p].sourceSha
      /\ proc[p].commitSha \in commits

\* A merge of two different commits wrote its commit, and the store holds a
\* commit of put without a parent.
C18_Witness ==
  /\ \E p \in Procs : /\ Committed(p) /\ proc[p].op = "merge"
                       /\ proc[p].destSha # proc[p].sourceSha
  /\ \E p \in Procs : /\ Committed(p) /\ proc[p].op = "put"
                       /\ proc[p].parentSha = NullCommit

\* A step of a createBranch run.
CreateStep(p) == proc'[p] # proc[p] /\ proc'[p].op = "create"

\* C19 (createBranch never overwrites): no step of a createBranch run
\* changes a ref other than the new branch's; it gives the new branch a
\* value only when no branch of that name exists, and that value is the
\* commit of the source ref; an existing branch keeps its value; a run whose
\* source does not resolve, or that reports AlreadyExists, creates no ref.
C19_CreateNeverOverwrites ==
  [][\A p \in Procs :
       CreateStep(p) =>
         LET newRef == FullRef(proc'[p].refName)
         IN  /\ \A r \in DOMAIN refs : r # newRef => refs'[r] = refs[r]
             /\ refs[newRef] # NullCommit => refs'[newRef] = refs[newRef]
             /\ refs'[newRef] # refs[newRef] => refs'[newRef] = proc[p].sourceSha
             /\ proc'[p].result \in {"Error", "AlreadyExists"} => refs' = refs]_vars

\* The commits reachable from a commit through parent links, itself included.
RECURSIVE AncestorsOf(_)
AncestorsOf(c) == {c} \cup UNION {AncestorsOf(c.parent[i]) : i \in 1..Len(c.parent)}

\* The repository machine without createBranch and removeBranch: the
\* interleavings of putFile, removeFile and mergeBranches runs.
WritersNext ==
  \/ \E p \in Procs, refName \in BranchArgs, a \in PutArgs :
        PutResolveParent(p, refName, a[1], a[2])
  \/ \E p \in Procs : PutBuildTree(p)
  \/ \E p \in Procs : PutWriteCommit(p)
  \/ \E p \in Procs : PutRecheck(p)
  \/ \E p \in Procs : PutWriteRef(p)
  \/ \E p \in Procs, refName \in BranchArgs, filePath \in RemoveArgs :
        RemoveResolveParent(p, refName, filePath)
  \/ \E p \in Procs : RemoveBuildTree(p)
  \/ \E p \in Procs : RemoveWriteCommit(p)
  \/ \E p \in Procs : RemoveRecheck(p)
  \/ \E p \in Procs : RemoveWriteRef(p)
  \/ \E p \in Procs, a \in MergeArgs : MergeResolveSource(p, a[1], a[2], {})
  \/ \E p \in Procs : MergeResolveDest(p)
  \/ \E p \in Procs : MergeBuildTree(p)
  \/ \E p \in Procs : MergeWriteCommit(p)
  \/ \E p \in Procs : MergeWriteRef(p)

SpecWriters == Init /\ [][WritersNext]_vars

\* A step of a run.
WriterStep(p) == proc'[p] # proc[p]

\* C23 (no lost update): in the interleavings of putFile, removeFile and
\* mergeBranches runs, whenever a step changes a branch from commit A to
\* commit B, A is reachable from B through parent links.
C23_NoLostUpdate ==
  [][\A p \in Procs :
       WriterStep(p) =>
         \A r \in DOMAIN refs :
           refs[r] # NullCommit /\ refs'[r] # refs[r] =>
             refs[r] \in AncestorsOf(refs'[r])]_vars

\* ------------------------------------------------------------ tree machine
SideTree(side) == IF side = "ours" THEN ours ELSE theirs

Applied(side, R) ==
  /\ steps' = steps + 1
  /\ prev' = last
  /\ ours' = IF side = "ours" /\ R.err = "" THEN CommitTree(R.oid) ELSE ours
  /\ theirs' = IF side = "theirs" /\ R.err = "" THEN CommitTree(R.oid) ELSE theirs

TreeUpsert(side, p, content) ==
  /\ steps < MaxSteps
  /\ LET R == upsertTree(SideTree(side), p, Blob(content))
     IN  /\ last' = [NoOp EXCEPT !.op = "upsert", !.side = side, !.T = SideTree(side),
                                 !.p = p, !.X = Blob(content), !.R = R]
         /\ Applied(side, R)
  /\ UNCHANGED <<base, repoVars>>

TreeRemove(side, p) ==
  /\ steps < MaxSteps
  /\ SideTree(side) # NullSha
  /\ LET R == MaterializeRoot(removeTreeEntry(SideTree(side), p))
     IN  /\ last' = [NoOp EXCEPT !.op = "remove", !.side = side, !.T = SideTree(side),
                                 !.p = p, !.R = R]
         /\ Applied(side, R)
  /\ UNCHANGED <<base, repoVars>>

\* Merge theirs into ours; afterwards theirs is an ancestor of ours, so it is
\* the base of the next merge.
TreeMerge(resolutions) ==
  /\ steps < MaxSteps
  /\ base # NullSha /\ ours # NullSha /\ theirs # NullSha
  /\ LET R == mergeTrees(base, ours, theirs, resolutions)
     IN  /\ last' = [NoOp EXCEPT !.op = "merge", !.T = ours, !.B = base, !.S = theirs,
                                 !.res = resolutions, !.R = R]
         /\ Applied("ours", R)
         /\ base' = IF R.err = "" THEN theirs ELSE base
  /\ UNCHANGED repoVars

TreeInit ==
  /\ \E T \in InputTrees \cup {NullSha} : base = T /\ ours = T /\ theirs = T
  /\ steps = 0 /\ last = NoOp /\ prev = NoOp
  /\ refs = <<>> /\ objects = {} /\ commits = {} /\ proc = <<>> /\ ops = 0

\* The paths the tree machine edits: a top-level name, a name that is a
\* directory in some trees and a file in others, a nested path, and a path
\* through a name that some trees hold as a file.
TreeOpPaths == {<<"README.md">>, <<"src">>, <<"src", "README.md">>, <<"README.md", "src">>}

TreeNext ==
  \/ \E side \in {"ours", "theirs"}, p \in TreeOpPaths, content \in Contents :
        TreeUpsert(side, p, content)
  \/ \E side \in {"ours", "theirs"}, p \in TreeOpPaths : TreeRemove(side, p)
  \/ \E resolutions \in ResolutionChoices : TreeMerge(resolutions)

SpecTree == TreeInit /\ [][TreeNext]_vars

\* ------------------------------------------------- tree machine: claims
\* The entries of the directory a prefix names ({} when the prefix names no
\* directory).
RECURSIVE EntriesAt(_, _)
EntriesAt(oid, prefix) ==
  IF ~IsTree(oid) THEN {}
  ELSE IF prefix = <<>> THEN oid.e
  ELSE IF ~HasEntry(oid.e, Head(prefix)) THEN {}
  ELSE EntriesAt(EntryOf(oid.e, Head(prefix)).oid, Tail(prefix))

Exists(oid, q) == resolveBlobEntry(oid, q).type \in {"blob", "tree"}
Unrelated(q, p) == q # p /\ ~IsPrefix(q, p) /\ ~IsPrefix(p, q)
UpsertReturned == last.op = "upsert" /\ last.R.err = ""

\* C5 (upsert round-trip): whenever upsert(T, p, X) returns a root R,
\* resolving p in R segment by segment gives a blob entry with hash X, and
\* every path of T that is not p, not a prefix of p and not below p resolves
\* in R to the entry (kind, mode, hash) it had in T.
C5_UpsertRoundTrip ==
  UpsertReturned =>
    /\ resolveBlobEntry(last.R.oid, last.p).type = "blob"
    /\ resolveBlobEntry(last.R.oid, last.p).sha = last.X
    /\ \A q \in Paths :
         Exists(last.T, q) /\ Unrelated(q, last.p) =>
           resolveBlobEntry(last.R.oid, q) = resolveBlobEntry(last.T, q)

C5_Witness ==
  /\ UpsertReturned /\ Len(last.p) = 2
  /\ \E q \in Paths : Len(q) = 2 /\ Exists(last.T, q) /\ Unrelated(q, last.p)
                      /\ Head(q) = Head(last.p)
  /\ Exists(last.T, last.p) /\ resolveBlobEntry(last.T, last.p).sha # last.X

\* C6 (upsert is total): upsert returns a new root for every tree and every
\* non-empty path, also when a segment names an existing entry of the other
\* kind.
C6_UpsertTotal == last.op = "upsert" => last.R.err = ""

\* C7 (structural sharing): at each directory level along p only the entry
\* named by p's segment at that level changes; every sibling keeps name,
\* kind, mode and hash, and the only trees written are the directories on
\* the path.
C7_StructuralSharing ==
  UpsertReturned =>
    /\ \A i \in 1..Len(last.p) :
         LET prefix == SubSeq(last.p, 1, i - 1)
         IN  {x \in EntriesAt(last.R.oid, prefix) : x.path # last.p[i]}
               = {x \in EntriesAt(last.T, prefix) : x.path # last.p[i]}
    /\ last.R.written
         = {Tree(EntriesAt(last.R.oid, SubSeq(last.p, 1, i - 1))) : i \in 1..Len(last.p)}

C7_Witness ==
  /\ UpsertReturned /\ last.p = <<"src", "README.md">>
  /\ HasEntry(last.T.e, "README.md") /\ ~HasEntry(last.T.e, "src")
  /\ EntriesAt(last.R.oid, <<"src">>) = {BlobEntry("README.md", last.X, "100644")}

\* The round trip of C8: an upsert of p, then a removal of p from its result.
RoundTrip ==
  /\ prev.op = "upsert" /\ last.op = "remove"
  /\ last.side = prev.side /\ last.p = prev.p
  /\ prev.T # NullSha /\ ~Exists(prev.T, prev.p)

\* Some proper prefix of p names a file of T.
FileOnTheWay(T, p) ==
  \E i \in 1..(Len(p) - 1) : resolveBlobEntry(T, SubSeq(p, 1, i)).type = "blob"

C9_NoEmptyDirectory ==
  /\ \A t \in last.R.written \cup {base, ours, theirs, last.R.oid} :
        ~RefersToEmptyDir(t)
  /\ EmptyTree \in last.R.written => last.op = "remove" /\ last.R.oid = EmptyTree

\* A removal that pruned a directory, followed by a merge that pruned it too.
C9_Witness ==
  /\ prev.op = "remove" /\ prev.R.err = "" /\ Len(prev.p) = 2
  /\ HasEntry(prev.T.e, Head(prev.p)) /\ ~HasEntry(prev.R.oid.e, Head(prev.p))
  /\ prev.side = "theirs" /\ prev.R.oid # EmptyTree
  /\ last.op = "merge" /\ last.R.err = ""
  /\ HasEntry(last.T.e, Head(prev.p)) /\ ~HasEntry(last.R.oid.e, Head(prev.p))

\* No two entries of the tree have the same name.
UniqueNames(tree) == \A x, y \in tree.e : x.path = y.path => x = y

\* The tree objects the operation applied last has written.
TreesWritten == {t \in last.R.written : IsTree(t)}

\* C20 (unique names): in every tree written by upsert, remove or merge, at
\* every level, the entry names are pairwise distinct.
C20_UniqueNames ==
  /\ \A t \in TreesWritten : UniqueNames(t)
  /\ last.R.err = "" /\ last.R.oid # NullSha =>
        \A t \in {o \in ObjectsIn(last.R.oid) : IsTree(o)} : UniqueNames(t)

\* An upsert gave new content to a name its directory held already, below a
\* root that was rewritten too, after an operation that wrote trees as well.
C20_Witness ==
  /\ last.op = "upsert" /\ last.R.err = "" /\ Len(last.p) = 2
  /\ resolveBlobEntry(last.T, last.p).type = "blob"
  /\ resolveBlobEntry(last.T, last.p).sha # last.X
  /\ Cardinality(TreesWritten) = 2
  /\ prev.op \in {"remove", "merge"} /\ prev.R.written # {}

\* -------------------------------------------------- merge scenario machine
\* Largest number of paths that hold a file in the base, in ours or in theirs.
MaxMergePaths == 2

\* A top-level file, a name that is a file in some trees and a directory in
\* others, and a file of that directory with the name of the top-level file.
MergePaths == {<<"README.md">>, <<"src">>, <<"src", "README.md">>}
PathSets == {ps \in SUBSET MergePaths : Cardinality(ps) <= MaxMergePaths}

\* The trees putFile and removeFile build over a set of paths.
MergeFileSets(ps) ==
  {fs \in SUBSET {<<p, c, "100644">> : p \in ps, c \in Contents} :
     \A f, g \in fs : f # g => f[1] # g[1] /\ ~IsProperPrefix(f[1], g[1])}
MergeTrees(ps) == {TreeOfFiles(fs) : fs \in MergeFileSets(ps)}

\* <<base, ours, theirs>>: the root trees of the merge base, of the
\* destination branch and of the source branch.
MergeInputs ==
  UNION {MergeTrees(ps) \X MergeTrees(ps) \X MergeTrees(ps) : ps \in PathSets}

\* The content a resolution supplies: a text that neither side holds.
ResolvedContent == 3

\* Resolutions given on the command line: none, one keyed by a name, one
\* keyed by a path from the root, one with empty content.
MergeResolutions ==
  {{}, {<<"README.md", ResolvedContent>>}, {<<"src/README.md", ResolvedContent>>},
   {<<"README.md", EmptyContent>>}}

\* The commit both branches started from, and the head of a branch: the
\* base commit itself while the branch has not changed its tree, otherwise a
\* child of it (the heads of the two branches differ in their message).
BaseCommit(B) == Commit(B, <<>>, [NoMessage EXCEPT !.verb = "Initial"])
SideCommit(B, T, branch) ==
  IF T = B THEN BaseCommit(B)
  ELSE Commit(T, <<BaseCommit(B)>>, [NoMessage EXCEPT !.verb = "Add", !.dest = branch])

\* A repository in which dev was branched off main and each branch went on
\* on its own.
MergeInit ==
  /\ \E t \in MergeInputs :
       /\ refs = [r \in RefNames |->
                    IF r = "refs/heads/main" THEN SideCommit(t[1], t[2], "main")
                    ELSE SideCommit(t[1], t[3], "dev")]
       /\ objects = ObjectsIn(t[1]) \cup ObjectsIn(t[2]) \cup ObjectsIn(t[3])
       /\ commits = {BaseCommit(t[1]), SideCommit(t[1], t[2], "main"),
                     SideCommit(t[1], t[3], "dev")}
  /\ proc = [p \in Procs |-> IdleProc]
  /\ ops = 0
  /\ base = NullSha /\ ours = NullSha /\ theirs = NullSha
  /\ steps = 0 /\ last = NoOp /\ prev = NoOp

\* One run of "merge-branch.js repo dev main [resolutions]", and a second run
\* of the same command line started while the first has resolved its refs
\* and not yet merged.
MergeNext ==
  \/ \E resolutions \in MergeResolutions :
        proc[1].pc = "idle" /\ MergeResolveSource(1, "dev", "main", resolutions)
  \/ /\ proc[2].pc = "idle" /\ proc[1].pc = "tree"
     /\ MergeResolveSource(2, proc[1].sourceBranch, proc[1].destBranch,
                           proc[1].resolutions)
  \/ \E p \in Procs : MergeResolveDest(p)
  \/ \E p \in Procs : MergeBuildTree(p)
  \/ \E p \in Procs : MergeWriteCommit(p)
  \/ \E p \in Procs : MergeWriteRef(p)

SpecMerge == MergeInit /\ [][MergeNext]_vars

\* --------------------------------------------- merge scenario machine: claims
\* Run p has merged (or failed to merge) the trees of its three commits.
Merged(p) == proc[p].op = "merge" /\ proc[p].baseSha # NullCommit
BaseOf(p) == proc[p].baseSha.tree
OursOf(p) == proc[p].destSha.tree
TheirsOf(p) == proc[p].sourceSha.tree
\* The tree of the merge commit: an absent result is the empty tree.
MergedTree(p) == CommitTree(proc[p].newRootTreeSha)

\* C12 (fast-forward and no-op merge): with empty resolutions, a merge in
\* which ours equals the base returns theirs, and one in which theirs equals
\* the base returns ours, without conflict or error.
C12_FastForward ==
  \A p \in Procs :
    Merged(p) /\ proc[p].resolutions = {} =>
      /\ OursOf(p) = BaseOf(p) => proc[p].err = "" /\ MergedTree(p) = TheirsOf(p)
      /\ TheirsOf(p) = BaseOf(p) => proc[p].err = "" /\ MergedTree(p) = OursOf(p)

\* The hash of the file at a path of a tree (NullSha where the tree holds no
\* file at that path).
FileAt(tree, q) ==
  IF resolveBlobEntry(tree, q).type = "blob" THEN resolveBlobEntry(tree, q).sha
  ELSE NullSha
\* Both sides changed the file at q, to different values.
BothChanged(p, q) ==
  /\ FileAt(OursOf(p), q) # FileAt(BaseOf(p), q)
  /\ FileAt(TheirsOf(p), q) # FileAt(BaseOf(p), q)
  /\ FileAt(OursOf(p), q) # FileAt(TheirsOf(p), q)
\* The value the three-way rule gives the file at q.
ThreeWay(p, q) ==
  IF FileAt(OursOf(p), q) = FileAt(BaseOf(p), q)
  THEN FileAt(TheirsOf(p), q) ELSE FileAt(OursOf(p), q)

\* C13 (three-way rule for independent changes): when no file path is
\* changed by both sides to different values, the merge with empty
\* resolutions succeeds and every file path holds the value of the side that
\* changed it (absent where that side deleted it).
C13_ThreeWayRule ==
  \A p \in Procs :
    Merged(p) /\ proc[p].resolutions = {} /\ (\A q \in MergePaths : ~BothChanged(p, q)) =>
      /\ proc[p].err = ""
      /\ \A q \in MergePaths : FileAt(MergedTree(p), q) = ThreeWay(p, q)

\* The paths both sides changed to different content and for which the
\* command line holds no resolution under that path from the root.
PathString(q) == IF Len(q) = 1 THEN q[1] ELSE q[1] \o "/" \o q[2]
Conflicting(p) == {q \in MergePaths : BothChanged(p, q)}
Unresolved(p) ==
  {q \in Conflicting(p) : ~\E r \in proc[p].resolutions : r[1] = PathString(q)}

\* C14 (an unresolved conflict names its path): when both sides changed a
\* path to different content and no resolution is supplied, the merge fails
\* with MergeConflict and the path it reports is a conflicting path, written
\* from the root of the tree.
C14_ConflictNamesPath ==
  \A p \in Procs :
    Merged(p) /\ proc[p].resolutions = {} /\ Conflicting(p) # {} =>
      proc[p].err = "MergeConflict" /\ proc[p].at \in Conflicting(p)

\* C15 (a merge fully resolves or publishes nothing): a run in which some
\* conflicting path has no supplied resolution writes no commit object and
\* no ref.
C15_ResolveAllOrNothing ==
  \A p \in Procs :
    Merged(p) /\ Unresolved(p) # {} =>
      /\ proc[p].pc = "done" /\ proc[p].result = "Error"
      /\ proc[p].commitSha = NullCommit
      /\ proc[p].refWrites = 0

\* The content the command line supplies for the path q.
SuppliedFor(p, q) == (CHOOSE r \in proc[p].resolutions : r[1] = PathString(q))[2]

\* C16 (resolved conflict): when every conflicting path has a resolution
\* supplied under its path from the root, the merge succeeds, each
\* conflicting path holds a blob with the supplied content, and every other
\* path holds what the three-way rule gives it.
C16_ResolvedConflict ==
  \A p \in Procs :
    Merged(p) /\ Conflicting(p) # {} /\ Unresolved(p) = {} =>
      /\ proc[p].err = ""
      /\ \A q \in Conflicting(p) : FileAt(MergedTree(p), q) = Blob(SuppliedFor(p, q))
      /\ \A q \in MergePaths \ Conflicting(p) : FileAt(MergedTree(p), q) = ThreeWay(p, q)

\* The orders in which the entries of one level can be visited.
Orders(todo) ==
  LET names == {todo[i] : i \in 1..Len(todo)}
  IN  {o \in [1..Len(todo) -> names] : \A n \in names : \E i \in 1..Len(todo) : o[i] = n}

\* The root level of the merge a run made, visited in the given order.
RootMergeIn(p, todo) ==
  mergeLoop(todo, readEntries(BaseOf(p)), readEntries(OursOf(p)),
            readEntries(TheirsOf(p)), proc[p].resolutions, {}, {})

SameInputs(p, q) ==
  /\ BaseOf(p) = BaseOf(q) /\ OursOf(p) = OursOf(q) /\ TheirsOf(p) = TheirsOf(q)
  /\ proc[p].resolutions = proc[q].resolutions

RootNames(p) == KeysOf(BaseOf(p).e) \cup KeysOf(OursOf(p).e) \cup KeysOf(TheirsOf(p).e)

\* The name n is a directory on ours or theirs (isDir) while the base or the
\* other side holds it as a blob, or does not hold it.
KindDisagreement(p, n) ==
  /\ TypeOf(OursOf(p).e, n) = "tree" \/ TypeOf(TheirsOf(p).e, n) = "tree"
  /\ {TypeOf(BaseOf(p).e, n), TypeOf(OursOf(p).e, n), TypeOf(TheirsOf(p).e, n)}
        \cap {"blob", "absent"} # {}

\* C21 (merge across a file-vs-directory disagreement): when a name is a
\* directory on ours or theirs and a blob, or absent, on another side or in
\* the base, the merge does not fail on the disagreement; with no file
\* changed on both sides it completes, and the merged tree holds the name as
\* a directory or, the merged subtree being empty, not at all.
C21_KindDisagreementRecurses ==
  \A p \in Procs :
    Merged(p) =>
      \A n \in RootNames(p) :
        KindDisagreement(p, n) =>
          /\ proc[p].err # "ObjectTypeError"
          /\ Conflicting(p) = {} =>
                /\ proc[p].err = ""
                /\ TypeOf(MergedTree(p).e, n) \in {"tree", "absent"}

\* The step in which a merge run fails with an unresolved conflict.
ConflictStep(p) ==
  /\ proc[p].op = "merge" /\ proc[p].pc = "tree"
  /\ proc'[p].err = "MergeConflict"

\* C22 (no partial tree on conflict): a merge that fails with an unresolved
\* conflict adds no object to the store, neither a tree nor a resolution
\* blob, wherever the conflicting path stands among the names visited.
C22_NoPartialTree ==
  [][\A p \in Procs : ConflictStep(p) => objects' = objects]_vars

\* C24 (merge never commits an absent tree): the tree of every commit
\* written by mergeBranches is a tree object of the store; when the merged
\* result has no entries at the root, it is the stored empty tree.
C24_MergeCommitsStoredTree ==
  \A p \in Procs :
    proc[p].op = "merge" /\ Committed(p) =>
      /\ IsTree(proc[p].commitSha.tree)
      /\ proc[p].commitSha.tree \in objects

\* ------------------------------------------------ ref argument machine
\* putFile and removeFile launched with every form of ref argument: a short
\* branch name, a refs/heads/ name, HEAD and a refs/tags/ name.
RefArgs == {"main", "refs/heads/main", "HEAD", "refs/tags/v1"}

\* The ref files these arguments can read or write.
RefFiles == {FullRef(a) : a \in RefArgs} \cup {WrittenRef(a) : a \in RefArgs}

\* The repository create-bare leaves: refs/heads/main on the initial commit,
\* no other ref.
RefsInit ==
  /\ refs = [r \in RefFiles |-> IF r = "refs/heads/main" THEN InitialCommit ELSE NullCommit]
  /\ objects = {Blob(1), InitialTree}
  /\ commits = {InitialCommit}
  /\ proc = [p \in Procs |-> IdleProc]
  /\ ops = 0
  /\ base = NullSha /\ ours = NullSha /\ theirs = NullSha
  /\ steps = 0 /\ last = NoOp /\ prev = NoOp

RefsNext ==
  \/ \E p \in Procs, refName \in RefArgs, a \in PutArgs :
        PutResolveParent(p, refName, a[1], a[2])
  \/ \E p \in Procs : PutBuildTree(p)
  \/ \E p \in Procs : PutWriteCommit(p)
  \/ \E p \in Procs : PutRecheck(p)
  \/ \E p \in Procs : PutWriteRef(p)
  \/ \E p \in Procs, refName \in RefArgs, filePath \in OpPaths :
        RemoveResolveParent(p, refName, filePath)
  \/ \E p \in Procs : RemoveBuildTree(p)
  \/ \E p \in Procs : RemoveWriteCommit(p)
  \/ \E p \in Procs : RemoveRecheck(p)
  \/ \E p \in Procs : RemoveWriteRef(p)

SpecRefs == RefsInit /\ [][RefsNext]_vars

\* C25 (checked ref equals written ref): a step of a putFile or removeFile
\* run creates or modifies no ref other than the one its ref argument names,
\* the ref it read its parent from and re-checked, whatever the form of the
\* argument.
C25_CheckedRefIsWrittenRef ==
  [][\A p \in Procs :
       WriterStep(p) /\ proc[p].op \in {"put", "remove"} =>
         \A r \in DOMAIN refs :
           refs'[r] # refs[r] => r = FullRef(proc[p].refName)]_vars

====
